---- MODULE Spec2Model ----
(***************************************************************************)
(* Model of doshmon.py: one housekeeping pass of Doshmon against a Todoist *)
(* project (fetch, add_missing_sections, archive_unwanted_sections,        *)
(* set_section_order, set_section_titles, do_update), followed by further  *)
(* passes against the remote state the first pass left behind.             *)
(*                                                                         *)
(* Text is modelled as sequences of one-character strings, so that         *)
(* lower(), startswith(), split(), join(), re.sub() and str() are computed *)
(* character by character as Python computes them.                         *)
(*                                                                         *)
(* Spec is the pass; CostSpec runs _get_total_cost and ScheduleSpec runs   *)
(* _get_expected_sections on their own, over inputs drawn for them.        *)
(***************************************************************************)
EXTENDS Integers, Sequences, FiniteSets, TLC

(***************************************************************************)
(* Bounds of the model.                                                    *)
(***************************************************************************)
MaxSections == 2
MaxTasks == 2
MaxRuns == 2
MaxYears == 3

(***************************************************************************)
(* Program constants.                                                      *)
(***************************************************************************)
MONTHLY_BUDGET == 500

\* The value Python's None takes where an identifier is expected.
None == <<"None">>

\* The currency symbol of the source, one character.
Pound == "£"

(***************************************************************************)
(* Text helpers (Python str methods).                                      *)
(***************************************************************************)
UpperChars == <<"A","B","C","D","E","F","G","H","I","J","K","L","M",
                "N","O","P","Q","R","S","T","U","V","W","X","Y","Z">>
LowerChars == <<"a","b","c","d","e","f","g","h","i","j","k","l","m",
                "n","o","p","q","r","s","t","u","v","w","x","y","z">>
DigitChars == <<"0","1","2","3","4","5","6","7","8","9">>

\* the characters of the model's texts
Alphabet ==
  {UpperChars[i] : i \in 1..26} \cup {LowerChars[i] : i \in 1..26}
    \cup {DigitChars[i] : i \in 1..10} \cup {" ", "(", ")", ".", "/", "!", ":", ",", "-", Pound}

\* c.lower() of one character
LowerChar(c) ==
  IF \E i \in 1..26 : UpperChars[i] = c
    THEN LowerChars[CHOOSE i \in 1..26 : UpperChars[i] = c]
    ELSE c

\* c.lower(), tabulated over the alphabet
LowerTable == [c \in Alphabet |-> LowerChar(c)]

\* s.lower()
Lower(s) == [i \in 1..Len(s) |-> LowerTable[s[i]]]

\* s.startswith(p)
StartsWith(s, p) == Len(p) <= Len(s) /\ SubSeq(s, 1, Len(p)) = p

\* s.split(): maximal runs of non-whitespace characters, in order
RECURSIVE SplitFrom(_, _, _, _)
SplitFrom(s, i, word, words) ==
  IF i > Len(s)
    THEN IF word = <<>> THEN words ELSE Append(words, word)
    ELSE IF s[i] = " "
           THEN SplitFrom(s, i + 1, <<>>,
                          IF word = <<>> THEN words ELSE Append(words, word))
           ELSE SplitFrom(s, i + 1, Append(word, s[i]), words)

Split(s) == SplitFrom(s, 1, <<>>, <<>>)

\* words[:n]
Take(words, n) == SubSeq(words, 1, IF Len(words) < n THEN Len(words) ELSE n)

\* " ".join(words)
RECURSIVE Join(_)
Join(words) ==
  IF words = <<>> THEN <<>>
  ELSE IF Len(words) = 1 THEN words[1]
  ELSE words[1] \o <<" ">> \o Join(Tail(words))

\* s.replace(old, new) for a one-character old
RECURSIVE Replace(_, _, _)
Replace(s, old, new) ==
  IF s = <<>> THEN <<>>
  ELSE (IF Head(s) = old THEN new ELSE <<Head(s)>>) \o Replace(Tail(s), old, new)

\* str(n) of a non-negative int
RECURSIVE IntStr(_)
IntStr(n) ==
  IF n < 10 THEN <<DigitChars[n + 1]>>
  ELSE IntStr(n \div 10) \o <<DigitChars[(n % 10) + 1]>>

(***************************************************************************)
(* datetime: strftime('%B %Y') and the canonical schedule.                 *)
(***************************************************************************)
MonthName(m) ==
  CASE m = 1 -> <<"J","a","n","u","a","r","y">>
    [] m = 2 -> <<"F","e","b","r","u","a","r","y">>
    [] m = 3 -> <<"M","a","r","c","h">>
    [] m = 4 -> <<"A","p","r","i","l">>
    [] m = 5 -> <<"M","a","y">>
    [] m = 6 -> <<"J","u","n","e">>
    [] m = 7 -> <<"J","u","l","y">>
    [] m = 8 -> <<"A","u","g","u","s","t">>
    [] m = 9 -> <<"S","e","p","t","e","m","b","e","r">>
    [] m = 10 -> <<"O","c","t","o","b","e","r">>
    [] m = 11 -> <<"N","o","v","e","m","b","e","r">>
    [] m = 12 -> <<"D","e","c","e","m","b","e","r">>

\* dt.strftime('%B %Y')
Strftime(dt) == MonthName(dt.month) \o <<" ">> \o IntStr(dt.year)

\* every month in the current year
YearOfCurrent(month, dt) == dt.year

\* the year the loop of _get_expected_sections gives to a month
YearOf(month, dt) ==
  IF month = dt.month THEN dt.year
  ELSE IF month < dt.month THEN dt.year + 1
  ELSE dt.year

\* an ordering by month alone
DtLessByMonth(d1, d2) == d1.month < d2.month

\* datetime ordering: dt1 < dt2 (day is always 1)
DtLess(d1, d2) == d1.year < d2.year \/ (d1.year = d2.year /\ d1.month < d2.month)

\* list.sort() of datetimes: insertion of each element into a sorted prefix
RECURSIVE InsertDt(_, _)
InsertDt(sorted, d) ==
  IF sorted = <<>> THEN <<d>>
  ELSE IF DtLess(d, Head(sorted)) THEN <<d>> \o sorted
  ELSE <<Head(sorted)>> \o InsertDt(Tail(sorted), d)

RECURSIVE SortDts(_)
SortDts(dts) ==
  IF dts = <<>> THEN <<>>
  ELSE InsertDt(SortDts(SubSeq(dts, 1, Len(dts) - 1)), dts[Len(dts)])

BacklogLabel == <<"B","a","c","k","l","o","g">>

\* the loop of _get_expected_sections: one datetime per month, in month order
ExpectedDts(dt) == [m \in 1..12 |-> [year |-> YearOf(m, dt), month |-> m]]

\* the labels of the sorted datetimes, with Backlog put after the first
Rendered(sorted) ==
  LET labels == [i \in 1..Len(sorted) |-> Strftime(sorted[i])]
  IN  SubSeq(labels, 1, 1) \o <<BacklogLabel>> \o SubSeq(labels, 2, Len(labels))

\* Doshmon._get_expected_sections
GetExpectedSections(dt) == Rendered(SortDts(ExpectedDts(dt)))

\* the clock readings of the model: a month that starts the year and one
\* after which the schedule wraps into the next year
Clocks == {[month |-> 1, year |-> 2025], [month |-> 12, year |-> 2025]}

\* self._get_expected_sections(), tabulated over the clock readings
ExpectedSections == [dt \in Clocks |-> GetExpectedSections(dt)]

(***************************************************************************)
(* Cost computation (Doshmon._get_total_cost).                             *)
(*                                                                         *)
(* A number is held in hundredths.  kind "int" is Python's int 0 the total *)
(* starts from, "float" a finite float, "inf" and "nan" the two special    *)
(* floats float() can return.  The contents the model draws carry values   *)
(* with at most two fractional digits that binary floating point holds     *)
(* exactly (multiples of 0.25), so sums in hundredths are the float sums.  *)
(***************************************************************************)
Digits == {DigitChars[i] : i \in 1..10}
Letters == {UpperChars[i] : i \in 1..26} \cup {LowerChars[i] : i \in 1..26}
IsDigit(c) == c \in Digits
IsLetter(c) == c \in Letters
DigitVal(c) == (CHOOSE i \in 1..10 : DigitChars[i] = c) - 1

\* the characters re.sub(r'[^a-zA-Z0-9.£ ]+', '', ...) keeps
KeptChar(c) == IsLetter(c) \/ IsDigit(c) \/ c = "." \/ c = Pound \/ c = " "

\* re.sub(r'[^a-zA-Z0-9.£ ]+', '', content)
ReSub(content) == SelectSeq(content, KeptChar)

AllDigits(s) == \A i \in 1..Len(s) : IsDigit(s[i])

RECURSIVE DigitsVal(_)
DigitsVal(s) ==
  IF s = <<>> THEN 0 ELSE DigitsVal(SubSeq(s, 1, Len(s) - 1)) * 10 + DigitVal(s[Len(s)])

\* position of the first "." of s, or 0
DotPos(s) ==
  IF \E i \in 1..Len(s) : s[i] = "."
    THEN CHOOSE i \in 1..Len(s) : s[i] = "." /\ \A j \in 1..(i - 1) : s[j] # "."
    ELSE 0

\* hundredths denoted by the fractional digits (the model's inputs carry at most two)
FracCents(frac) ==
  IF Len(frac) = 0 THEN 0
  ELSE IF Len(frac) = 1 THEN DigitVal(frac[1]) * 10
  ELSE DigitVal(frac[1]) * 10 + DigitVal(frac[2])

NanWord == <<"n","a","n">>
InfWord == <<"i","n","f">>
InfinityWord == <<"i","n","f","i","n","i","t","y">>

\* float(w) for a token of kept characters: digits with at most one "." and at
\* least one digit; "nan", "inf", "infinity" in any case; ValueError for the
\* other tokens the model draws (it draws none with an exponent)
ParseFloat(w) ==
  LET dot == DotPos(w)
      ip == IF dot = 0 THEN w ELSE SubSeq(w, 1, dot - 1)
      fp == IF dot = 0 THEN <<>> ELSE SubSeq(w, dot + 1, Len(w))
  IN  IF Lower(w) = NanWord THEN [ok |-> TRUE, kind |-> "nan", cents |-> 0]
      ELSE IF Lower(w) = InfWord \/ Lower(w) = InfinityWord
        THEN [ok |-> TRUE, kind |-> "inf", cents |-> 0]
      ELSE IF AllDigits(ip) /\ AllDigits(fp) /\ Len(ip) + Len(fp) > 0
        THEN [ok |-> TRUE, kind |-> "float", cents |-> DigitsVal(ip) * 100 + FracCents(fp)]
      ELSE [ok |-> FALSE, kind |-> "ValueError", cents |-> 0]

\* total += value
AddCost(total, v) ==
  IF total.kind = "nan" \/ v.kind = "nan" THEN [kind |-> "nan", cents |-> 0]
  ELSE IF total.kind = "inf" \/ v.kind = "inf" THEN [kind |-> "inf", cents |-> 0]
  ELSE [kind |-> "float", cents |-> total.cents + v.cents]

\* index of the first word of words that starts with the currency symbol, or 0
FirstPriced(words) ==
  IF \E i \in 1..Len(words) : StartsWith(words[i], <<Pound>>)
    THEN CHOOSE i \in 1..Len(words) :
           /\ StartsWith(words[i], <<Pound>>)
           /\ \A j \in 1..(i - 1) : ~StartsWith(words[j], <<Pound>>)
    ELSE 0

\* the inner loop of _get_total_cost for one task: the value float(w[1:]) of
\* the first word that starts with the currency symbol
TaskValue(content) ==
  LET words == Split(ReSub(content))
      i == FirstPriced(words)
  IN  IF i = 0 THEN [priced |-> FALSE, ok |-> TRUE, kind |-> "none", cents |-> 0]
      ELSE LET f == ParseFloat(Tail(words[i]))
           IN  [priced |-> TRUE, ok |-> f.ok, kind |-> f.kind, cents |-> f.cents]

ZeroCost == [kind |-> "int", cents |-> 0]

\* Doshmon._get_total_cost: raised is TRUE when float() raised ValueError;
\* counted lists the ids of the tasks whose value was added to the total
RECURSIVE TotalCostFrom(_, _, _, _)
TotalCostFrom(tasks, i, total, counted) ==
  IF i > Len(tasks) THEN [raised |-> FALSE, total |-> total, counted |-> counted]
  ELSE LET v == TaskValue(tasks[i].content)
       IN  IF ~v.priced THEN TotalCostFrom(tasks, i + 1, total, counted)
           ELSE IF ~v.ok THEN [raised |-> TRUE, total |-> total, counted |-> counted]
           ELSE TotalCostFrom(tasks, i + 1, AddCost(total, v), counted \cup {tasks[i].id})

GetTotalCost(tasks) == TotalCostFrom(tasks, 1, ZeroCost, {})

\* str(cost) inside the f-string: "0" for the int, repr for a float
CostStr(cost) ==
  CASE cost.kind = "int" -> IntStr(cost.cents \div 100)
    [] cost.kind = "nan" -> NanWord
    [] cost.kind = "inf" -> InfWord
    [] cost.kind = "float" ->
         IntStr(cost.cents \div 100) \o <<".">> \o
         (IF cost.cents % 10 = 0
            THEN <<DigitChars[((cost.cents % 100) \div 10) + 1]>>
            ELSE <<DigitChars[((cost.cents % 100) \div 10) + 1],
                   DigitChars[(cost.cents % 10) + 1]>>)

\* cost >= MONTHLY_BUDGET
AtLeastBudget(cost) ==
  CASE cost.kind = "nan" -> FALSE
    [] cost.kind = "inf" -> TRUE
    [] OTHER -> cost.cents >= MONTHLY_BUDGET * 100

\* cost > MONTHLY_BUDGET
OverBudget(cost) ==
  CASE cost.kind = "nan" -> FALSE
    [] cost.kind = "inf" -> TRUE
    [] OTHER -> cost.cents > MONTHLY_BUDGET * 100

(***************************************************************************)
(* Identifiers, records and commands.                                      *)
(***************************************************************************)
\* random_uuid(): the n-th identifier drawn, distinct from every other one
RandomUuid(n) == <<"uuid", n>>

\* the PROJECT_ID the process is started with, and some other project
PROJECT_ID == "project"
OTHER_PROJECT == "other"

\* a create command queued under the type of an item
AddItemCmd(name, project_id, temp_id, uuid) ==
  [type |-> "item_add", temp_id |-> temp_id, uuid |-> uuid,
   args |-> [name |-> name, project_id |-> project_id]]

\* Todoist.add_section
AddSectionCmd(name, project_id, temp_id, uuid) ==
  [type |-> "section_add", temp_id |-> temp_id, uuid |-> uuid,
   args |-> [name |-> name, project_id |-> project_id]]

\* Todoist.move_task_to_section
MoveTaskToSectionCmd(task_id, section_id, uuid) ==
  [type |-> "item_move", temp_id |-> None, uuid |-> uuid,
   args |-> [id |-> task_id, section_id |-> section_id]]

\* Todoist.reorder_sections
ReorderSectionsCmd(order_map, uuid) ==
  [type |-> "section_reorder", temp_id |-> None, uuid |-> uuid,
   args |-> [sections |-> order_map]]

\* Todoist.rename_section
RenameSectionCmd(section_id, name, uuid) ==
  [type |-> "section_update", temp_id |-> None, uuid |-> uuid,
   args |-> [id |-> section_id, name |-> name]]

\* the archive-section intent; the source calls self.api.archive_section,
\* which Todoist does not define
ArchiveSectionCmd(section_id, uuid) ==
  [type |-> "section_archive", temp_id |-> None, uuid |-> uuid,
   args |-> [id |-> section_id]]

\* the attributes a lookup on each kind of object finds
DictAttributes == {"get", "items", "keys", "values"}
DoshmonAttributes == {"api", "project_id", "do_housekeeping", "add_missing_sections",
                      "archive_unwanted_sections", "set_section_order",
                      "set_section_titles", "_get_expected_sections",
                      "_get_total_cost", "_get_current_section_id"}
TodoistAttributes == {"api_token", "get_state", "add_section", "move_task_to_section",
                      "reorder_sections", "rename_section", "do_update"}

(***************************************************************************)
(* The steps of Doshmon.do_housekeeping.                                   *)
(***************************************************************************)
\* name.startswith(label), the case kept
MatchesCase(name, label) == StartsWith(name, label)

\* name.lower().startswith(label.lower()): lower() keeps the length, so the
\* first Len(label) characters are compared after lowering each
Matches(name, label) ==
  /\ Len(label) <= Len(name)
  /\ \A i \in 1..Len(label) : LowerTable[name[i]] = LowerTable[label[i]]

\* f'{expected_section} (£0.00 / £{MONTHLY_BUDGET})'
DefaultName(label) ==
  label \o <<" ","(",Pound,"0",".","0","0"," ","/"," ",Pound>> \o IntStr(MONTHLY_BUDGET) \o <<")">>

\* the temp_id argument of the add_section call: a second random_uuid(),
\* not the temp_id the synthetic record gets
TempIdArg(temp_id, fresh) == fresh

\* a batch that grows at the front
ExtendAtFront(cmds, more) == more \o cmds

\* cmds.extend(more)
Extend(cmds, more) == cmds \o more

\* Doshmon._get_current_section_id
GetCurrentSectionId(sections, dt) ==
  IF \E i \in 1..Len(sections) : Matches(sections[i].name, Strftime(dt))
    THEN sections[CHOOSE i \in 1..Len(sections) :
                    /\ Matches(sections[i].name, Strftime(dt))
                    /\ \A j \in 1..(i - 1) : ~Matches(sections[j].name, Strftime(dt))].id
    ELSE None

\* the loop of add_missing_sections from the i-th expected label on;
\* n counts the random_uuid() calls made so far
RECURSIVE AddMissingFrom(_, _, _, _, _)
AddMissingFrom(expected, i, sections, cmds, n) ==
  IF i > Len(expected) THEN [sections |-> sections, cmds |-> cmds, n |-> n]
  ELSE IF \E j \in 1..Len(sections) : Matches(sections[j].name, expected[i])
    THEN AddMissingFrom(expected, i + 1, sections, cmds, n)
  ELSE LET name == DefaultName(expected[i])
           temp_id == RandomUuid(n + 1)
           cmd == AddSectionCmd(name, PROJECT_ID,
                                TempIdArg(temp_id, RandomUuid(n + 2)), RandomUuid(n + 3))
       IN  AddMissingFrom(expected, i + 1,
                          Append(sections, [id |-> temp_id, name |-> name,
                                            project_id |-> PROJECT_ID]),
                          Append(cmds, cmd), n + 3)

\* an add step that adds nothing
AddNone(sections, dt, n) == [sections |-> sections, cmds |-> <<>>, n |-> n]

\* Doshmon.add_missing_sections
AddMissing(sections, dt, n) == AddMissingFrom(ExpectedSections[dt], 1, sections, <<>>, n)

\* not any(section['name'].lower().startswith(e.lower()) for e in expected)
Unwanted(name, expected) == ~\E k \in 1..Len(expected) : Matches(name, expected[k])

\* tasks_to_move of archive_unwanted_sections
TasksToMove(tasks, section) ==
  SelectSeq(tasks, LAMBDA t : t.section_id = section.id /\ ~t.checked /\ ~t.is_deleted)

\* the relocations of one unwanted section: one move command per task
MoveCmds(tasks_to_move, current_section_id, n) ==
  [k \in 1..Len(tasks_to_move) |->
     MoveTaskToSectionCmd(tasks_to_move[k].id, current_section_id, RandomUuid(n + k))]

\* the body of the loop of archive_unwanted_sections for one unwanted section:
\* the log line reads section.name of a dict, the relocation is called on the
\* Doshmon object and the archival on a Todoist method that does not exist
ArchiveOne(section, tasks, current_section_id, n) ==
  LET tasks_to_move == TasksToMove(tasks, section)
  IN  IF "name" \notin DictAttributes
        THEN [raised |-> TRUE, cmds |-> <<>>, n |-> n]
      ELSE IF tasks_to_move # <<>> /\ "move_task_to_section" \notin DoshmonAttributes
        THEN [raised |-> TRUE, cmds |-> <<>>, n |-> n]
      ELSE IF "archive_section" \notin TodoistAttributes
        THEN [raised |-> TRUE,
              cmds |-> MoveCmds(tasks_to_move, current_section_id, n),
              n |-> n + Len(tasks_to_move)]
      ELSE [raised |-> FALSE,
            cmds |-> Append(MoveCmds(tasks_to_move, current_section_id, n),
                            ArchiveSectionCmd(section.id,
                                              RandomUuid(n + Len(tasks_to_move) + 1))),
            n |-> n + Len(tasks_to_move) + 1]

\* the loop of archive_unwanted_sections from the i-th section on; the tasks
\* are left as they are (task['section_id'] == ... is a comparison)
RECURSIVE ArchiveFrom(_, _, _, _, _, _, _)
ArchiveFrom(sections, i, tasks, expected, current_section_id, cmds, n) ==
  IF i > Len(sections) THEN [raised |-> FALSE, cmds |-> cmds, n |-> n]
  ELSE IF ~Unwanted(sections[i].name, expected)
    THEN ArchiveFrom(sections, i + 1, tasks, expected, current_section_id, cmds, n)
  ELSE LET r == ArchiveOne(sections[i], tasks, current_section_id, n)
       IN  IF r.raised THEN [raised |-> TRUE, cmds |-> cmds \o r.cmds, n |-> r.n]
           ELSE ArchiveFrom(sections, i + 1, tasks, expected, current_section_id,
                            cmds \o r.cmds, r.n)

\* Doshmon.archive_unwanted_sections
ArchiveUnwanted(sections, tasks, dt, n) ==
  ArchiveFrom(sections, 1, tasks, ExpectedSections[dt],
              GetCurrentSectionId(sections, dt), <<>>, n)

\* positions counted from 0
SectionOrderMapFromZero(sections) ==
  [i \in 1..Len(sections) |-> [id |-> sections[i].id, section_order |-> i - 1]]

\* section_order_map of set_section_order
SectionOrderMap(sections) ==
  [i \in 1..Len(sections) |-> [id |-> sections[i].id, section_order |-> i]]

\* tasks_for_section of set_section_titles
TasksForSection(tasks, section) == SelectSeq(tasks, LAMBDA t : t.section_id = section.id)

\* a title that keeps the first word of the name only
CostTitleOneWord(name, cost) ==
  Join(Take(Split(name), 1)) \o <<" ","(",Pound>> \o CostStr(cost)
    \o <<" ","/"," ",Pound>> \o IntStr(MONTHLY_BUDGET) \o <<")">>

\* f'{" ".join(section["name"].split()[:2])} (£{cost} / £{MONTHLY_BUDGET})'
CostTitle(name, cost) ==
  Join(Take(Split(name), 2)) \o <<" ","(",Pound>> \o CostStr(cost)
    \o <<" ","/"," ",Pound>> \o IntStr(MONTHLY_BUDGET) \o <<")">>

\* expected_title.replace('(', '!!! ').replace(')', ' !!!')
Overspend(title) == Replace(Replace(title, "(", <<"!","!","!"," ">>), ")", <<" ","!","!","!">>)

\* the expected title of one section; raised when _get_total_cost raised
ExpectedTitle(section, sections, tasks, dt) ==
  IF StartsWith(section.name, BacklogLabel)
    THEN [raised |-> FALSE, title |-> BacklogLabel, counted |-> {}]
  ELSE LET c == GetTotalCost(TasksForSection(tasks, section))
           t == CostTitle(section.name, c.total)
       IN  [raised |-> c.raised,
            title |-> IF section.id = GetCurrentSectionId(sections, dt) /\ OverBudget(c.total)
                        THEN Overspend(t) ELSE t,
            counted |-> c.counted]

\* a rename whatever the name
AlwaysRename(expected_title, name) == TRUE

\* expected_title != section['name']
NeedsRename(expected_title, name) == expected_title # name

\* the loop of set_section_titles from the i-th section on
RECURSIVE TitlesFrom(_, _, _, _, _, _, _)
TitlesFrom(sections, i, tasks, dt, cmds, n, counted) ==
  IF i > Len(sections) THEN [raised |-> FALSE, cmds |-> cmds, n |-> n, counted |-> counted]
  ELSE LET e == ExpectedTitle(sections[i], sections, tasks, dt)
       IN  IF e.raised
             THEN [raised |-> TRUE, cmds |-> cmds, n |-> n, counted |-> counted \cup e.counted]
           ELSE IF NeedsRename(e.title, sections[i].name)
             THEN TitlesFrom(sections, i + 1, tasks, dt,
                             Append(cmds, RenameSectionCmd(sections[i].id, e.title,
                                                           RandomUuid(n + 1))),
                             n + 1, counted \cup e.counted)
           ELSE TitlesFrom(sections, i + 1, tasks, dt, cmds, n, counted \cup e.counted)

\* Doshmon.set_section_titles
SetTitles(sections, tasks, dt, n) == TitlesFrom(sections, 1, tasks, dt, <<>>, n, {})

(***************************************************************************)
(* The remote project: what get_state reads and do_update's batch changes. *)
(* remote.sections and remote.items are the sync response, remote.archived *)
(* the completed items the archive endpoint returns per section, and       *)
(* remote.next numbers the sections the remote creates.                    *)
(***************************************************************************)
\* the completed items of every section, in section order (the loop of get_state)
RECURSIVE CompletedItems(_, _)
CompletedItems(sections, archived) ==
  IF sections = <<>> THEN <<>>
  ELSE SelectSeq(archived, LAMBDA t : t.section_id = Head(sections).id)
         \o CompletedItems(Tail(sections), archived)

\* Todoist.get_state(project_id): sections and items of the project
GetState(r, project_id) ==
  LET items == r.items \o CompletedItems(r.sections, r.archived)
  IN  [sections |-> SelectSeq(r.sections, LAMBDA x : x.project_id = project_id),
       tasks |-> SelectSeq(items, LAMBDA t : t.project_id = project_id)]

\* the identifier a command argument denotes: a temp_id of a section created
\* earlier in the batch denotes that section
Resolve(id, tempmap) ==
  IF \E p \in tempmap : p[1] = id THEN (CHOOSE p \in tempmap : p[1] = id)[2] ELSE id

HasSection(r, id) == \E i \in 1..Len(r.sections) : r.sections[i].id = id

\* positions of a reorder command that name sections of the remote
KnownOrder(r, order_map, tempmap) ==
  SelectSeq(order_map, LAMBDA e : HasSection(r, Resolve(e.id, tempmap)))

\* the effect of one command on the remote; a command that names a section
\* or item the remote does not know fails and changes nothing
ApplyCmd(r, cmd, tempmap) ==
  CASE cmd.type = "section_add" ->
         [r EXCEPT !.sections = Append(@, [id |-> <<"created", r.next>>,
                                           name |-> cmd.args.name,
                                           project_id |-> cmd.args.project_id]),
                   !.next = @ + 1]
    [] cmd.type = "item_move" ->
         IF HasSection(r, Resolve(cmd.args.section_id, tempmap))
           THEN [r EXCEPT !.items =
                   [i \in 1..Len(@) |->
                      IF @[i].id = cmd.args.id
                        THEN [@[i] EXCEPT !.section_id = Resolve(cmd.args.section_id, tempmap)]
                        ELSE @[i]]]
           ELSE r
    [] cmd.type = "section_reorder" ->
         LET known == KnownOrder(r, cmd.args.sections, tempmap)
             named == {Resolve(known[k].id, tempmap) : k \in 1..Len(known)}
             SectionOf(id) == r.sections[CHOOSE i \in 1..Len(r.sections) : r.sections[i].id = id]
         IN  [r EXCEPT !.sections =
                [k \in 1..Len(known) |-> SectionOf(Resolve(known[k].id, tempmap))]
                  \o SelectSeq(r.sections, LAMBDA x : x.id \notin named)]
    [] cmd.type = "section_update" ->
         [r EXCEPT !.sections =
            [i \in 1..Len(@) |->
               IF @[i].id = Resolve(cmd.args.id, tempmap)
                 THEN [@[i] EXCEPT !.name = cmd.args.name]
                 ELSE @[i]]]
    [] cmd.type = "section_archive" ->
         [r EXCEPT !.sections = SelectSeq(@, LAMBDA x : x.id # Resolve(cmd.args.id, tempmap))]
    [] OTHER -> r

\* the batch of do_update, applied in the order it was submitted
RECURSIVE ApplyFrom(_, _, _, _)
ApplyFrom(r, cmds, i, tempmap) ==
  IF i > Len(cmds) THEN r
  ELSE ApplyFrom(ApplyCmd(r, cmds[i], tempmap), cmds, i + 1,
                 IF cmds[i].type = "section_add"
                   THEN tempmap \cup {<<cmds[i].temp_id, <<"created", r.next>>>>}
                   ELSE tempmap)

ApplyCmds(r, cmds) == ApplyFrom(r, cmds, 1, {})

(***************************************************************************)
(* The projects a pass can find.                                           *)
(***************************************************************************)
MiscName == <<"M","i","s","c">>

\* sections to draw from, relative to the clock: a month that is not the
\* current one with a settled title, the current month under its default name,
\* a section no label matches, the current month in lower case with a third
\* word, the backlog in lower case, and a section of another project
SectionPool(dt) ==
  << [name |-> Strftime([month |-> 6, year |-> YearOf(6, dt)])
                 \o <<" ","(",Pound,"0"," ","/"," ",Pound,"5","0","0",")">>,
      project_id |-> PROJECT_ID],
     [name |-> Strftime(dt) \o <<" ","(",Pound,"0",".","0","0"," ","/"," ",Pound,"5","0","0",")">>,
      project_id |-> PROJECT_ID],
     [name |-> MiscName, project_id |-> PROJECT_ID],
     [name |-> Lower(Strftime(dt)) \o <<" ","m","i","s","c">>, project_id |-> PROJECT_ID],
     [name |-> <<"b","a","c","k","l","o","g">>, project_id |-> PROJECT_ID],
     [name |-> MiscName, project_id |-> OTHER_PROJECT] >>

\* tasks to draw from; sec is the position of the owning section in the
\* remote's section list (a position past its end is a section that is gone)
TaskPool ==
  << [content |-> <<Pound,"5","5","0">>, sec |-> 1, checked |-> FALSE, is_deleted |-> FALSE,
      project_id |-> PROJECT_ID],
     [content |-> <<Pound,"5","0","0">>, sec |-> 1, checked |-> FALSE, is_deleted |-> FALSE,
      project_id |-> PROJECT_ID],
     [content |-> <<Pound,"5","5","0">>, sec |-> 2, checked |-> FALSE, is_deleted |-> TRUE,
      project_id |-> PROJECT_ID],
     [content |-> <<"x",":"," ",Pound,"3",".","5","0","!"," ",Pound,"9">>, sec |-> 1,
      checked |-> TRUE, is_deleted |-> FALSE, project_id |-> PROJECT_ID],
     [content |-> <<"a"," ",Pound>>, sec |-> 2, checked |-> FALSE, is_deleted |-> FALSE,
      project_id |-> PROJECT_ID],
     [content |-> <<Pound,"5","5","0">>, sec |-> 1, checked |-> FALSE, is_deleted |-> FALSE,
      project_id |-> OTHER_PROJECT] >>

\* the elements of pool at the positions S, in pool order
Pick(pool, S) ==
  [k \in 1..Cardinality(S) |->
     pool[CHOOSE i \in S : Cardinality({j \in S : j < i}) = k - 1]]

\* the lists of at most n elements of pool, in pool order
Draws(pool, n) ==
  {Pick(pool, S) : S \in {T \in SUBSET (1..Len(pool)) : Cardinality(T) <= n}}

\* the remote project made of the drawn sections and tasks
MakeRemote(secs, ts) ==
  LET items == [i \in 1..Len(ts) |->
                  [id |-> <<"item", i>>, content |-> ts[i].content,
                   section_id |-> <<"section", ts[i].sec>>, checked |-> ts[i].checked,
                   is_deleted |-> ts[i].is_deleted, project_id |-> ts[i].project_id]]
  IN  [sections |-> [i \in 1..Len(secs) |->
                       [id |-> <<"section", i>>, name |-> secs[i].name,
                        project_id |-> secs[i].project_id]],
       items |-> SelectSeq(items, LAMBDA t : ~t.checked),
       archived |-> SelectSeq(items, LAMBDA t : t.checked),
       next |-> 1]

(***************************************************************************)
(* State.                                                                  *)
(***************************************************************************)
VARIABLES
  now,        \* what datetime.now() returns during the passes
  remote,     \* the remote project
  pc,         \* where do_housekeeping stands
  exc,        \* the exception that ended the pass, or "none"
  sections,   \* the working set's section list
  tasks,      \* the working set's task list
  cmds,       \* the commands accumulated by do_housekeeping
  submitted,  \* the batch do_update posted
  counted,    \* ids of the tasks whose value set_section_titles added to a cost
  nuuid,      \* number of random_uuid() calls so far
  run,        \* number of the pass: 1 for the first
  fetches,    \* calls of get_state made by the pass
  applies,    \* calls of do_update made by the pass
  total,         \* the local total of _get_total_cost, when it runs on its own
  expected_dts,  \* the local expected_dts of _get_expected_sections, likewise
  expected       \* the local expected of _get_expected_sections, likewise

\* the locals of the two functions examined on their own
locals == <<total, expected_dts, expected>>

vars == <<now, remote, pc, exc, sections, tasks, cmds, submitted, counted, nuuid, run,
          fetches, applies, locals>>

Init ==
  /\ now \in Clocks
  /\ \E secs \in Draws(SectionPool(now), MaxSections) :
       \E ts \in Draws(TaskPool, MaxTasks) :
         remote = MakeRemote(secs, ts)
  /\ pc = "start"
  /\ exc = "none"
  /\ sections = <<>>
  /\ tasks = <<>>
  /\ cmds = <<>>
  /\ submitted = <<>>
  /\ counted = {}
  /\ nuuid = 0
  /\ run = 1
  /\ fetches = 0
  /\ applies = 0
  /\ total = ZeroCost
  /\ expected_dts = <<>>
  /\ expected = <<>>

\* line 23: self.api.get_state(project_id=self.project_id) returns
Fetch ==
  /\ pc = "start"
  /\ \E st \in {GetState(remote, PROJECT_ID)} :
         /\ sections' = st.sections
         /\ tasks' = st.tasks
  /\ pc' = "fetched"
  /\ fetches' = fetches + 1
  /\ UNCHANGED <<now, remote, exc, cmds, submitted, counted, nuuid, run, applies, locals>>

\* line 23: a request of get_state gets a non-success response
FetchFails ==
  /\ pc = "start"
  /\ pc' = "raised"
  /\ exc' = "HTTPError"
  /\ fetches' = fetches + 1
  /\ UNCHANGED <<now, remote, sections, tasks, cmds, submitted, counted, nuuid, run,
                 applies, locals>>

\* line 25: cmds.extend(self.add_missing_sections(sections))
AddMissingSections ==
  /\ pc = "fetched"
  /\ \E r \in {AddMissing(sections, now, nuuid)} :
         /\ sections' = r.sections
         /\ cmds' = Extend(cmds, r.cmds)
         /\ nuuid' = r.n
  /\ pc' = "added"
  /\ UNCHANGED <<now, remote, exc, tasks, submitted, counted, run, fetches, applies, locals>>

\* line 26: cmds.extend(self.archive_unwanted_sections(sections, tasks))
ArchiveUnwantedSections ==
  /\ pc = "added"
  /\ \E r \in {ArchiveUnwanted(sections, tasks, now, nuuid)} :
         /\ nuuid' = r.n
         /\ IF r.raised
              THEN /\ pc' = "raised"
                   /\ exc' = "AttributeError"
                   /\ cmds' = cmds
              ELSE /\ pc' = "archived"
                   /\ exc' = exc
                   /\ cmds' = Extend(cmds, r.cmds)
  /\ UNCHANGED <<now, remote, sections, tasks, submitted, counted, run, fetches, applies,
                 locals>>

\* line 27: cmds.extend(self.set_section_order(sections))
SetSectionOrder ==
  /\ pc = "archived"
  /\ cmds' = Extend(cmds, <<ReorderSectionsCmd(SectionOrderMap(sections), RandomUuid(nuuid + 1))>>)
  /\ nuuid' = nuuid + 1
  /\ pc' = "ordered"
  /\ UNCHANGED <<now, remote, exc, sections, tasks, submitted, counted, run, fetches,
                 applies, locals>>

\* line 28: cmds.extend(self.set_section_titles(sections, tasks))
SetSectionTitles ==
  /\ pc = "ordered"
  /\ \E r \in {SetTitles(sections, tasks, now, nuuid)} :
         /\ nuuid' = r.n
         /\ counted' = r.counted
         /\ IF r.raised
              THEN /\ pc' = "raised"
                   /\ exc' = "ValueError"
                   /\ cmds' = cmds
              ELSE /\ pc' = "titled"
                   /\ exc' = exc
                   /\ cmds' = Extend(cmds, r.cmds)
  /\ UNCHANGED <<now, remote, sections, tasks, submitted, run, fetches, applies, locals>>

\* line 29: self.api.do_update(cmds) posts the batch and the remote applies it
DoUpdate ==
  /\ pc = "titled"
  /\ submitted' = cmds
  /\ remote' = ApplyCmds(remote, cmds)
  /\ pc' = "done"
  /\ applies' = applies + 1
  /\ UNCHANGED <<now, exc, sections, tasks, cmds, counted, nuuid, run, fetches, locals>>

\* a do_update that swallows the error, after which the batch is posted again
DoUpdateRetries ==
  /\ pc = "titled"
  /\ submitted' = cmds
  /\ applies' = applies + 1
  /\ UNCHANGED <<now, remote, pc, exc, sections, tasks, cmds, counted, nuuid, run, fetches,
                 locals>>

\* line 29: the post gets a non-success response and do_update re-raises
DoUpdateFails ==
  /\ pc = "titled"
  /\ submitted' = cmds
  /\ pc' = "raised"
  /\ exc' = "HTTPError"
  /\ applies' = applies + 1
  /\ UNCHANGED <<now, remote, sections, tasks, cmds, counted, nuuid, run, fetches, locals>>

\* the process is started again after a pass that applied its batch (lines
\* 210-221): a new pass with a new working set.  A pass started after one that
\* raised finds the remote as that pass found it, and is a first pass again.
NextRun ==
  /\ pc = "done"
  /\ run < MaxRuns
  /\ run' = run + 1
  /\ pc' = "start"
  /\ exc' = "none"
  /\ sections' = <<>>
  /\ tasks' = <<>>
  /\ cmds' = <<>>
  /\ submitted' = <<>>
  /\ counted' = {}
  /\ fetches' = 0
  /\ applies' = 0
  /\ UNCHANGED <<now, remote, nuuid, locals>>

Next ==
  \/ Fetch
  \/ FetchFails
  \/ AddMissingSections
  \/ ArchiveUnwantedSections
  \/ SetSectionOrder
  \/ SetSectionTitles
  \/ DoUpdate
  \/ DoUpdateFails
  \/ NextRun

Spec == Init /\ [][Next]_vars

(***************************************************************************)
(* _get_total_cost on its own: the function is called with a list of tasks *)
(* and returns its total or raises.                                        *)
(***************************************************************************)
\* task contents to draw from: a price among words, no price, two prices,
\* a price between punctuation, a price of a quarter, a price after a minus
\* sign, a price run into the next word, and the token float() reads as nan
CostContents ==
  << <<"B","u","y"," ","m","i","l","k"," ","£","3",".","5","0"," ","a","n","d"," ","e","g","g","s">>,
     <<"N","o"," ","p","r","i","c","e"," ","h","e","r","e">>,
     <<"£","1","0"," ","£","2","0">>,
     <<"R","e","n","t",":"," ","£","4","5","0",".","0","0","!","!">>,
     <<"£","0",".","2","5"," ","t","i","p">>,
     <<"G","i","f","t"," ","-","£","5">>,
     <<"F","e","e"," ","£","5","/","m","o","n","t","h">>,
     <<"£","n","a","n">> >>

\* the lists of at most n elements of pool
RECURSIVE SeqsUpTo(_, _)
SeqsUpTo(pool, n) ==
  IF n = 0 THEN {<<>>}
  ELSE SeqsUpTo(pool, n - 1)
         \cup {Append(q, pool[i]) : q \in {x \in SeqsUpTo(pool, n - 1) : Len(x) = n - 1},
                                    i \in 1..Len(pool)}

\* the argument of the call: tasks with the drawn contents
CostTasks(contents) ==
  [i \in 1..Len(contents) |-> [id |-> <<"item", i>>, content |-> contents[i]]]

CostInit ==
  /\ now \in {[month |-> 1, year |-> 2025]}
  /\ remote = MakeRemote(<<>>, <<>>)
  /\ pc = "cost_called"
  /\ exc = "none"
  /\ sections = <<>>
  /\ tasks \in {CostTasks(cs) : cs \in SeqsUpTo(CostContents, MaxTasks)}
  /\ cmds = <<>>
  /\ submitted = <<>>
  /\ counted = {}
  /\ nuuid = 0
  /\ run = 1
  /\ fetches = 0
  /\ applies = 0
  /\ total = ZeroCost
  /\ expected_dts = <<>>
  /\ expected = <<>>

\* lines 105-112: the loop ends and the total is returned
GetTotalCostReturns ==
  /\ pc = "cost_called"
  /\ \E r \in {GetTotalCost(tasks)} :
         /\ ~r.raised
         /\ total' = r.total
         /\ counted' = r.counted
  /\ pc' = "cost_returned"
  /\ UNCHANGED <<now, remote, exc, sections, tasks, cmds, submitted, nuuid, run,
                 fetches, applies, expected_dts, expected>>

\* line 110: float() raises ValueError and the call ends with it
GetTotalCostRaises ==
  /\ pc = "cost_called"
  /\ \E r \in {GetTotalCost(tasks)} :
         /\ r.raised
         /\ total' = r.total
         /\ counted' = r.counted
  /\ pc' = "cost_raised"
  /\ exc' = "ValueError"
  /\ UNCHANGED <<now, remote, sections, tasks, cmds, submitted, nuuid, run,
                 fetches, applies, expected_dts, expected>>

CostNext ==
  \/ GetTotalCostReturns
  \/ GetTotalCostRaises

CostSpec == CostInit /\ [][CostNext]_vars

(***************************************************************************)
(* _get_expected_sections on its own, statement by statement, for every    *)
(* month the clock can show.                                               *)
(***************************************************************************)
\* the years the clock is drawn from
ScheduleYears == 2024..(2023 + MaxYears)

ScheduleClocks == {[month |-> m, year |-> y] : m \in 1..12, y \in ScheduleYears}

ScheduleInit ==
  /\ now \in ScheduleClocks
  /\ remote = MakeRemote(<<>>, <<>>)
  /\ pc = "schedule_called"
  /\ exc = "none"
  /\ sections = <<>>
  /\ tasks = <<>>
  /\ cmds = <<>>
  /\ submitted = <<>>
  /\ counted = {}
  /\ nuuid = 0
  /\ run = 1
  /\ fetches = 0
  /\ applies = 0
  /\ total = ZeroCost
  /\ expected_dts = <<>>
  /\ expected = <<>>

\* lines 85-96: one datetime per month, each with its year
BuildExpectedDts ==
  /\ pc = "schedule_called"
  /\ expected_dts' = ExpectedDts(now)
  /\ pc' = "schedule_built"
  /\ UNCHANGED <<now, remote, exc, sections, tasks, cmds, submitted, counted, nuuid, run,
                 fetches, applies, total, expected>>

\* line 98: expected_dts.sort()
SortExpectedDts ==
  /\ pc = "schedule_built"
  /\ expected_dts' = SortDts(expected_dts)
  /\ pc' = "schedule_sorted"
  /\ UNCHANGED <<now, remote, exc, sections, tasks, cmds, submitted, counted, nuuid, run,
                 fetches, applies, total, expected>>

\* lines 99-102: the labels, Backlog put after the first, are returned
ReturnExpected ==
  /\ pc = "schedule_sorted"
  /\ expected' = Rendered(expected_dts)
  /\ pc' = "schedule_returned"
  /\ UNCHANGED <<now, remote, exc, sections, tasks, cmds, submitted, counted, nuuid, run,
                 fetches, applies, total, expected_dts>>

ScheduleNext ==
  \/ BuildExpectedDts
  \/ SortExpectedDts
  \/ ReturnExpected

ScheduleSpec == ScheduleInit /\ [][ScheduleNext]_vars

(***************************************************************************)
(* Properties.                                                             *)
(***************************************************************************)
\* the sections get_state returned to the pass in progress (the remote
\* changes only when do_update succeeds)
Fetched == SelectSeq(remote.sections, LAMBDA x : x.project_id = PROJECT_ID)
FetchedIds == {Fetched[i].id : i \in 1..Len(Fetched)}

\* the section identifiers a command refers to
SectionRefs(cmd) ==
  CASE cmd.type = "item_move" -> {cmd.args.section_id}
    [] cmd.type = "section_reorder" ->
         {cmd.args.sections[k].id : k \in 1..Len(cmd.args.sections)}
    [] cmd.type = "section_update" -> {cmd.args.id}
    [] cmd.type = "section_archive" -> {cmd.args.id}
    [] OTHER -> {}

\* the temporary identifiers of the create commands before position i
TempIdsBefore(batch, i) ==
  {batch[j].temp_id : j \in {k \in 1..(i - 1) : batch[k].type = "section_add"}}

CmdsOfType(batch, type) == {i \in 1..Len(batch) : batch[i].type = type}

\* the pass has computed its whole batch
Computed == pc \in {"titled", "done"} \/ (pc = "raised" /\ submitted # <<>>)

\* C1: a second pass, run after the first pass's batch was applied, emits
\* the reorder intent and nothing else.
C1_SecondPassOnlyReorders ==
  (run = 2 /\ Computed) => (Len(cmds) = 1 /\ cmds[1].type = "section_reorder")

\* C2: every create intent carries the identifier of the synthetic record
\* made with it, and every section identifier in a relocate, reorder, rename
\* or archive intent is a fetched section's or the temp_id of an earlier
\* create intent of the batch.
C2_TempIdsResolve ==
  pc \in {"added", "archived", "ordered", "titled"} =>
    /\ \A i \in CmdsOfType(cmds, "section_add") :
         \E k \in 1..Len(sections) :
           sections[k].id = cmds[i].temp_id /\ sections[k].name = cmds[i].args.name
    /\ \A i \in 1..Len(cmds) :
         SectionRefs(cmds[i]) \subseteq FetchedIds \cup TempIdsBefore(cmds, i)

\* the place of an intent's kind in the order of a batch
Rank(type) ==
  CASE type = "section_add" -> 1
    [] type = "item_move" -> 2
    [] type = "section_archive" -> 2
    [] type = "section_reorder" -> 3
    [] type = "section_update" -> 4
    [] OTHER -> 0

\* do_update was called with a batch
Posted == pc = "done" \/ (pc = "raised" /\ submitted # <<>>)

\* C3: in the batch handed to do_update the create intents come first, then
\* the relocate and archive intents, then the one reorder intent, then the
\* rename intents, and do_update posts the batch in that order.
C3_BatchOrder ==
  Posted =>
    /\ submitted = cmds
    /\ Cardinality(CmdsOfType(submitted, "section_reorder")) = 1
    /\ \A i, j \in 1..Len(submitted) :
         i < j => Rank(submitted[i].type) <= Rank(submitted[j].type)

C3_Witness ==
  /\ pc = "done"
  /\ CmdsOfType(submitted, "section_add") # {}
  /\ CmdsOfType(submitted, "section_update") # {}
  /\ \E i \in CmdsOfType(submitted, "section_add") :
       \E j \in CmdsOfType(submitted, "section_reorder") :
         \E k \in CmdsOfType(submitted, "section_update") : i < j /\ j < k

\* label is a prefix of name when case is ignored
PrefixCI(name, label) ==
  Len(label) <= Len(name) /\ Lower(SubSeq(name, 1, Len(label))) = Lower(label)

Labels == ExpectedSections[now]

\* no canonical label is a prefix of name
NoLabelMatches(name) == \A k \in 1..Len(Labels) : ~PrefixCI(name, Labels[k])

\* archive_unwanted_sections has run in this pass, to its end or to an exception
ArchiveRan ==
  \/ pc \in {"archived", "ordered", "titled", "done"}
  \/ pc = "raised" /\ (exc # "HTTPError" \/ submitted # <<>>)

\* C4: for every unwanted section the archival step emits one relocate intent
\* for each of its tasks that is neither completed nor deleted, none for its
\* other tasks, and then exactly one archive intent for the section.
C4_Archival ==
  ArchiveRan =>
    \A k \in 1..Len(sections) :
      NoLabelMatches(sections[k].name) =>
        LET arch == {i \in CmdsOfType(cmds, "section_archive") :
                       cmds[i].args.id = sections[k].id}
            MovesOf(t) == {i \in CmdsOfType(cmds, "item_move") : cmds[i].args.id = t.id}
        IN  /\ Cardinality(arch) = 1
            /\ \A n \in 1..Len(tasks) :
                 tasks[n].section_id = sections[k].id =>
                   /\ Cardinality(MovesOf(tasks[n])) =
                        (IF ~tasks[n].checked /\ ~tasks[n].is_deleted THEN 1 ELSE 0)
                   /\ \A i \in MovesOf(tasks[n]) : \A j \in arch : i < j

DefaultSuffix == <<" ","(",Pound,"0",".","0","0"," ","/"," ",Pound,"5","0","0",")">>

\* C5: right after add_missing_sections, a create intent exists for a label
\* exactly when no fetched section starts with it (case ignored), one per such
\* label; every label is then matched in the working set, and the fetched
\* sections are its unchanged prefix.
C5_AddMissing ==
  pc = "added" =>
    LET creates == CmdsOfType(cmds, "section_add")
        Missing(label) == \A k \in 1..Len(Fetched) : ~PrefixCI(Fetched[k].name, label)
    IN  /\ \A n \in 1..Len(Labels) :
             (\E i \in creates : cmds[i].args.name = Labels[n] \o DefaultSuffix)
               <=> Missing(Labels[n])
        /\ Cardinality(creates) = Cardinality({n \in 1..Len(Labels) : Missing(Labels[n])})
        /\ \A n \in 1..Len(Labels) :
             \E k \in 1..Len(sections) : PrefixCI(sections[k].name, Labels[n])
        /\ Len(sections) >= Len(Fetched)
        /\ SubSeq(sections, 1, Len(Fetched)) = Fetched

C5_Witness ==
  /\ pc = "added"
  /\ CmdsOfType(cmds, "section_add") # {}
  /\ \E k \in 1..Len(Fetched) :
       /\ PrefixCI(Fetched[k].name, Labels[1])
       /\ ~StartsWith(Fetched[k].name, Labels[1])

\* the task of the working set with the identifier id, if any
TasksWithId(id) == {n \in 1..Len(tasks) : tasks[n].id = id}

\* C6: the intents of a pass create and delete no task; a relocate intent is
\* about a task that is neither completed nor deleted and whose section no
\* canonical label matches.
C6_TasksOnlyRelocated ==
  \A i \in 1..Len(cmds) :
    /\ cmds[i].type \in {"section_add", "item_move", "section_archive",
                         "section_reorder", "section_update"}
    /\ cmds[i].type = "item_move" =>
         /\ TasksWithId(cmds[i].args.id) # {}
         /\ \A n \in TasksWithId(cmds[i].args.id) :
              /\ ~tasks[n].checked
              /\ ~tasks[n].is_deleted
              /\ \A k \in 1..Len(sections) :
                   sections[k].id = tasks[n].section_id => NoLabelMatches(sections[k].name)

C6_Witness ==
  /\ pc = "titled"
  /\ cmds # <<>>
  /\ \E n \in 1..Len(tasks) : tasks[n].checked \/ tasks[n].is_deleted
  /\ \E n \in 1..Len(tasks) :
       /\ ~tasks[n].checked /\ ~tasks[n].is_deleted
       /\ \E k \in 1..Len(sections) :
            sections[k].id = tasks[n].section_id /\ ~NoLabelMatches(sections[k].name)

\* the first section of the working set that the current month's label matches
IsCurrentSection(k) ==
  /\ PrefixCI(sections[k].name, Strftime(now))
  /\ \A j \in 1..(k - 1) : ~PrefixCI(sections[j].name, Strftime(now))

\* the cost of the k-th section as set_section_titles totals it
SectionCost(k) == GetTotalCost(TasksForSection(tasks, sections[k])).total

Exceeds(cost) == cost.kind = "inf" \/ (cost.kind \in {"int", "float"} /\ cost.cents > 50000)

NamedBacklog(k) ==
  Len(sections[k].name) >= 7 /\ SubSeq(sections[k].name, 1, 7) = <<"B","a","c","k","l","o","g">>

\* the title the k-th section is to have
TitleFor(k) ==
  IF NamedBacklog(k) THEN <<"B","a","c","k","l","o","g">>
  ELSE LET two == Join(Take(Split(sections[k].name), 2))
           c == CostStr(SectionCost(k))
       IN  IF IsCurrentSection(k) /\ Exceeds(SectionCost(k))
             THEN two \o <<" ","!","!","!"," ",Pound>> \o c
                      \o <<" ","/"," ",Pound,"5","0","0"," ","!","!","!">>
             ELSE two \o <<" ","(",Pound>> \o c \o <<" ","/"," ",Pound,"5","0","0",")">>

RenamesOf(k) ==
  {i \in CmdsOfType(cmds, "section_update") : cmds[i].args.id = sections[k].id}

\* C7: after set_section_titles a section has a rename intent exactly when
\* its expected title differs from its name, at most one, and the intent
\* carries the expected title: "Backlog" for a name that starts with
\* "Backlog", else the first two words of the name and the cost suffix.
C7_RenameDecision ==
  pc = "titled" =>
    \A k \in 1..Len(sections) :
      /\ Cardinality(RenamesOf(k)) <= 1
      /\ (RenamesOf(k) # {}) <=> (TitleFor(k) # sections[k].name)
      /\ \A i \in RenamesOf(k) : cmds[i].args.name = TitleFor(k)

C7_Witness ==
  /\ pc = "titled"
  /\ \E k \in 1..Len(sections) : RenamesOf(k) = {} /\ ~NamedBacklog(k)
  /\ \E k \in 1..Len(sections) : RenamesOf(k) # {} /\ NamedBacklog(k)
  /\ \E k \in 1..Len(sections) :
       RenamesOf(k) # {} /\ ~NamedBacklog(k) /\ Len(Split(sections[k].name)) = 3

\* the title the k-th section has once the batch is applied
NewTitle(k) ==
  IF RenamesOf(k) = {} THEN sections[k].name
  ELSE cmds[CHOOSE i \in RenamesOf(k) : TRUE].args.name

Chars(s) == {s[i] : i \in 1..Len(s)}

Marked(title) ==
  /\ Len(title) >= 4
  /\ SubSeq(title, Len(title) - 3, Len(title)) = <<" ","!","!","!">>
  /\ "(" \notin Chars(title)
  /\ ")" \notin Chars(title)

Parenthesised(title) ==
  /\ title # <<>>
  /\ title[Len(title)] = ")"
  /\ "(" \in Chars(title)
  /\ "!" \notin Chars(title)

\* C8: the expected title of a section not named Backlog carries the "!!!"
\* delimiters exactly when the section is the current month's and its cost is
\* strictly greater than 500; otherwise it carries the parentheses.
C8_OverspendMarker ==
  pc = "titled" =>
    \A k \in 1..Len(sections) :
      ~NamedBacklog(k) =>
        /\ Marked(NewTitle(k)) <=> (IsCurrentSection(k) /\ Exceeds(SectionCost(k)))
        /\ ~Marked(NewTitle(k)) => Parenthesised(NewTitle(k))

C8_Witness ==
  /\ pc = "titled"
  /\ \E k \in 1..Len(sections) :
       IsCurrentSection(k) /\ Exceeds(SectionCost(k)) /\ Marked(NewTitle(k))
  /\ \E k \in 1..Len(sections) :
       /\ ~IsCurrentSection(k) /\ ~NamedBacklog(k)
       /\ Exceeds(SectionCost(k)) /\ Parenthesised(NewTitle(k))

\* set_section_order has run in this pass
OrderRan ==
  \/ pc \in {"ordered", "titled", "done"}
  \/ pc = "raised" /\ (exc = "ValueError" \/ submitted # <<>>)

\* C9: the batch holds exactly one reorder intent; it lists the sections of
\* the working set in list order, the k-th with position k, none twice.
C9_ReorderIntent ==
  OrderRan =>
    /\ Cardinality(CmdsOfType(cmds, "section_reorder")) = 1
    /\ \A i \in CmdsOfType(cmds, "section_reorder") :
         LET m == cmds[i].args.sections
         IN  /\ Len(m) = Len(sections)
             /\ \A k \in 1..Len(m) : m[k].id = sections[k].id /\ m[k].section_order = k
             /\ \A k1, k2 \in 1..Len(m) : k1 # k2 => m[k1].id # m[k2].id

C9_Witness ==
  /\ pc = "ordered"
  /\ Len(Fetched) >= 2
  /\ Len(sections) > Len(Fetched)

\* C10: a task whose value set_section_titles added to a cost total is not
\* deleted.
C10_NoDeletedCounted ==
  \A n \in 1..Len(tasks) : tasks[n].id \in counted => ~tasks[n].is_deleted

\* the content with every character removed that is neither alphanumeric nor
\* the currency symbol, a period or a space
Cleaned(content) ==
  SelectSeq(content, LAMBDA c : c \in Letters \cup Digits \cup {Pound, ".", " "})

\* s is digits, or digits with one period among them
IsDecimal(s) ==
  /\ \E i \in 1..Len(s) : s[i] \in Digits
  /\ \A i \in 1..Len(s) : s[i] \in Digits \cup {"."}
  /\ Cardinality({i \in 1..Len(s) : s[i] = "."}) <= 1

RECURSIVE Pow10(_)
Pow10(n) == IF n = 0 THEN 1 ELSE 10 * Pow10(n - 1)

\* the hundredths a decimal number denotes, digit by place value (the model's
\* numbers have at most two fractional digits)
DecimalCents(s) ==
  LET dots == {i \in 1..Len(s) : s[i] = "."}
      d == IF dots = {} THEN Len(s) + 1 ELSE CHOOSE i \in dots : TRUE
      place[i \in 0..Len(s)] ==
        IF i = 0 THEN 0
        ELSE place[i - 1] +
               (IF i < d THEN DigitVal(s[i]) * Pow10(d - 1 - i) * 100
                ELSE IF i = d + 1 THEN DigitVal(s[i]) * 10
                ELSE IF i = d + 2 THEN DigitVal(s[i])
                ELSE 0)
  IN  place[Len(s)]

\* the value the claim gives a task: that of the first token of the cleaned
\* content that starts with the currency symbol, zero without such a token; a
\* token that is no decimal number has no value to give
ClaimedValue(content) ==
  LET words == Split(Cleaned(content))
      priced == {i \in 1..Len(words) : words[i][1] = Pound}
  IN  IF priced = {} THEN 0
      ELSE LET w == words[CHOOSE i \in priced : \A j \in priced : i <= j]
               number == SubSeq(w, 2, Len(w))
           IN  IF IsDecimal(number) THEN DecimalCents(number) ELSE 0

RECURSIVE ClaimedTotal(_)
ClaimedTotal(ts) ==
  IF ts = <<>> THEN 0 ELSE ClaimedValue(Head(ts).content) + ClaimedTotal(Tail(ts))

\* C11: for any list of tasks _get_total_cost returns, and its result is the
\* sum over the tasks of the value of the first token of the cleaned content
\* that starts with the currency symbol (zero for a task without one, later
\* tokens ignored), and is non-negative.
C11_TotalCost ==
  pc # "cost_called" =>
    /\ pc = "cost_returned"
    /\ total.kind \in {"int", "float"}
    /\ total.cents = ClaimedTotal(tasks)
    /\ total.cents >= 0

\* the calendar month k months after the clock's
MonthAfter(k) ==
  [month |-> ((now.month - 1 + k) % 12) + 1, year |-> now.year + ((now.month - 1 + k) \div 12)]

\* C12: _get_expected_sections returns 13 labels: the clock's month and year
\* first, then "Backlog", then the next 11 months in calendar order.
C12_ScheduleShape ==
  pc = "schedule_returned" =>
    /\ Len(expected) = 13
    /\ expected[1] = Strftime(now)
    /\ expected[2] = <<"B","a","c","k","l","o","g">>
    /\ \A k \in 1..11 : expected[k + 2] = Strftime(MonthAfter(k))

C12_Witness ==
  /\ pc = "schedule_returned"
  /\ now = [month |-> 12, year |-> 2025]
  /\ expected[1] = <<"D","e","c","e","m","b","e","r"," ","2","0","2","5">>
  /\ expected[3] = <<"J","a","n","u","a","r","y"," ","2","0","2","6">>
  /\ expected[13] = <<"N","o","v","e","m","b","e","r"," ","2","0","2","6">>

\* the number of a calendar month, counted from year 0
MonthNumber(d) == d.year * 12 + (d.month - 1)

\* C13: the builder gives month m the clock's year if m is not before the
\* clock's month and the next year if it is; sorted, the 12 dates are strictly
\* increasing and are the 12 consecutive months from the clock's month on.
C13_RollingYear ==
  /\ pc = "schedule_built" =>
       /\ Len(expected_dts) = 12
       /\ \A m \in 1..12 :
            /\ expected_dts[m].month = m
            /\ expected_dts[m].year = (IF m >= now.month THEN now.year ELSE now.year + 1)
  /\ pc \in {"schedule_sorted", "schedule_returned"} =>
       /\ Len(expected_dts) = 12
       /\ \A i \in 1..11 : MonthNumber(expected_dts[i]) < MonthNumber(expected_dts[i + 1])
       /\ \A i \in 1..12 : MonthNumber(expected_dts[i]) = MonthNumber(now) + (i - 1)

C13_Witness ==
  /\ pc = "schedule_sorted"
  /\ now.month = 7
  /\ expected_dts[1] = [month |-> 7, year |-> now.year]
  /\ expected_dts[6] = [month |-> 12, year |-> now.year]
  /\ expected_dts[7] = [month |-> 1, year |-> now.year + 1]
  /\ expected_dts[12] = [month |-> 6, year |-> now.year + 1]

\* the rename intents of the batch for the section the i-th intent creates
RenamesOfCreated(i) ==
  {j \in CmdsOfType(cmds, "section_update") : cmds[j].args.id = cmds[i].temp_id}

\* C14: for a project with no sections and no tasks one pass emits 13 create
\* intents, one per canonical label in canonical order, no relocate or archive
\* intent, one reorder intent that lists the 13 created sections in creation
\* order at positions 1..13, and a rename intent for exactly the created
\* sections whose default name differs from the expected title, Backlog
\* among them.
C14_EmptyProject ==
  (pc = "titled" /\ run = 1 /\ Fetched = <<>> /\ tasks = <<>>) =>
    /\ Len(cmds) >= 14
    /\ CmdsOfType(cmds, "section_add") = 1..13
    /\ \A i \in 1..13 : cmds[i].args.name = Labels[i] \o DefaultSuffix
    /\ CmdsOfType(cmds, "item_move") = {}
    /\ CmdsOfType(cmds, "section_archive") = {}
    /\ CmdsOfType(cmds, "section_reorder") = {14}
    /\ Len(cmds[14].args.sections) = 13
    /\ \A k \in 1..13 :
         /\ cmds[14].args.sections[k].id = cmds[k].temp_id
         /\ cmds[14].args.sections[k].section_order = k
    /\ \A i \in 1..13 :
         /\ Cardinality(RenamesOfCreated(i)) = (IF TitleFor(i) # Labels[i] \o DefaultSuffix
                                                  THEN 1 ELSE 0)
         /\ \A j \in RenamesOfCreated(i) : cmds[j].args.name = TitleFor(i)
    /\ \A j \in CmdsOfType(cmds, "section_update") : \E i \in 1..13 : j \in RenamesOfCreated(i)
    /\ RenamesOfCreated(2) # {}

\* get_state raised: the pass has no batch, not even the reorder intent
FetchFailed == exc = "HTTPError" /\ cmds = <<>>

\* do_update raised
ApplyFailed == exc = "HTTPError" /\ cmds # <<>>

\* C15: a pass calls get_state at most once and do_update at most once; a
\* transport error ends the pass; after a failed fetch do_update was never
\* called, and a failed apply was the only one, after the only fetch.
C15_NoRetry ==
  /\ fetches <= 1
  /\ applies <= 1
  /\ applies = 1 => fetches = 1
  /\ exc = "HTTPError" => pc = "raised"
  /\ FetchFailed => (fetches = 1 /\ applies = 0 /\ submitted = <<>>)
  /\ ApplyFailed => (fetches = 1 /\ applies = 1 /\ submitted = cmds)
  /\ pc = "raised" => ~ENABLED Next

C15_Witness ==
  /\ pc = "raised"
  /\ ApplyFailed
  /\ applies = 1
  /\ CmdsOfType(submitted, "section_add") # {}

\* the tasks as get_state returned them to the pass in progress
FetchedTasks == GetState(remote, PROJECT_ID).tasks

\* the n-th fetched task is one the archival step is to relocate: neither
\* completed nor deleted, in a section of the working set that no label matches
ToRelocate(n) ==
  /\ ~FetchedTasks[n].checked
  /\ ~FetchedTasks[n].is_deleted
  /\ \E k \in 1..Len(sections) :
       sections[k].id = FetchedTasks[n].section_id /\ NoLabelMatches(sections[k].name)

\* the first section of the working set that the current month's label matches
CurrentMonthSections == {k \in 1..Len(sections) : IsCurrentSection(k)}

\* C16: once archive_unwanted_sections has run, a task it relocates keeps its
\* identifier and content and its owning section in the working set is the
\* relocation target, the current month's section, so that
\* set_section_titles counts it there.
C16_RelocationUpdatesWorkingSet ==
  (ArchiveRan /\ pc # "done") =>
    /\ Len(tasks) = Len(FetchedTasks)
    /\ \A n \in 1..Len(tasks) :
         ToRelocate(n) =>
           /\ tasks[n].id = FetchedTasks[n].id
           /\ tasks[n].content = FetchedTasks[n].content
           /\ \E k \in CurrentMonthSections : tasks[n].section_id = sections[k].id
           /\ \A i \in CmdsOfType(cmds, "item_move") :
                cmds[i].args.id = tasks[n].id => cmds[i].args.section_id = tasks[n].section_id

\* C17: after a successful fetch the compute steps of the pass all complete,
\* whatever the snapshot holds, and do_update is called exactly once, with
\* the accumulated intents: a pass ends only by a failed fetch, or after its
\* one call of do_update.
C17_EveryPassReachesApply ==
  /\ exc \in {"none", "HTTPError"}
  /\ (pc = "raised" /\ fetches = 1 /\ ~FetchFailed) => applies = 1
  /\ applies <= 1
  /\ applies = 1 => submitted = cmds

\* add_missing_sections has run in this pass and the working set is as
\* archive_unwanted_sections finds or found it
AfterAdd ==
  \/ pc \in {"added", "archived", "ordered", "titled"}
  \/ pc = "raised" /\ exc \in {"AttributeError", "ValueError"}

\* C18: in a pass of do_housekeeping the working set that
\* archive_unwanted_sections reads has a section of the current month, so the
\* identifier it resolves is not None and no relocate intent of the pass has
\* a null target.
C18_NoNullTarget ==
  /\ AfterAdd =>
       /\ CurrentMonthSections # {}
       /\ GetCurrentSectionId(sections, now) # None
       /\ \A k \in CurrentMonthSections : GetCurrentSectionId(sections, now) = sections[k].id
  /\ \A i \in CmdsOfType(cmds, "item_move") : cmds[i].args.section_id # None

C18_Witness ==
  /\ pc = "added"
  /\ \A k \in 1..Len(Fetched) : ~PrefixCI(Fetched[k].name, Strftime(now))
  /\ \E n \in 1..Len(tasks) : ToRelocate(n)
  /\ \E k \in CurrentMonthSections : k > Len(Fetched)

\* C20: the expected title of a section whose name starts, case ignored,
\* with a canonical label starts with that label too; so a pass that follows
\* one whose renames were applied creates no section and meets no unwanted
\* section.
C20_RenamesKeepLabels ==
  /\ pc = "titled" =>
       \A k \in 1..Len(sections) :
         \A n \in 1..Len(Labels) :
           PrefixCI(sections[k].name, Labels[n]) => PrefixCI(NewTitle(k), Labels[n])
  /\ run > 1 =>
       /\ CmdsOfType(cmds, "section_add") = {}
       /\ exc # "AttributeError"
       /\ \A k \in 1..Len(sections) : ~NoLabelMatches(sections[k].name)

C20_Witness ==
  /\ run = 2
  /\ pc = "titled"
  /\ \E k \in 1..Len(sections) :
       /\ PrefixCI(sections[k].name, Labels[1])
       /\ ~StartsWith(sections[k].name, Labels[1])
       /\ "(" \in Chars(sections[k].name)
  /\ \E k \in 1..Len(sections) : RenamesOf(k) # {} /\ NewTitle(k) # sections[k].name

====
